---- MODULE Spec2Model ----
(***************************************************************************)
(* Connection-lifecycle engine of the TCP proxy (package service):         *)
(* backends with active/passive health checks, one frontend with its bind  *)
(* loop and accept loop, per-accept handlers, the two relay goroutines of  *)
(* every connection pair, the shared closeAll and graceful shutdown.       *)
(***************************************************************************)
EXTENDS Integers, Sequences, FiniteSets, TLC

\* ------------------------------------------------------------------------
\* Bounds
\* ------------------------------------------------------------------------
\* Spec: the whole system from construction on
FullPairs == 1
FullBackends == 1
\* StartSpec: one backend and its clients, from construction on
StartPairs == 1
\* ProbeSpec: one client and the backends, from construction on
ProbeBackends == 1
\* LifeSpec: clients accepted and torn down while the system shuts down
LifePairs == 1
\* ReuseSpec: the same with enough clients for a descriptor to be reused
ReusePairs == 2
\* SelSpec: backend selection, started system that is never cancelled
SelPairs == 2
SelBackends == 2
\* SeqSpec: clients that connect one after another
SeqPairs == 10
\* RelaySpec: bytes every peer sends and the size of a pooled buffer
MaxBytes == 2
BufSize == 2

NoConn == 0
Bytes == {0, 1}
Dirs == {1, 2}

VARIABLES
    cancelled,   \* ctx.Done() is closed
    active,      \* backend.active
    bconns,      \* backend.connections : fd -> handle
    bmu,         \* backend.rmu ("free" or "R": read-locked by run)
    brun,        \* position of backend.run
    hc,          \* position of backend.runHealthcheck
    hcRes,       \* result of the probe dial not yet applied
    hcStale,     \* a traffic dial failed after the pending probe dial returned
    fconns,      \* frontend.connections : fd -> handle
    fmu,         \* frontend.rmu
    frun,        \* position of frontend.run
    listener,    \* frontend.tcpListener
    lpc,         \* position of frontend.listenForNewConn
    hpc,         \* position of handleNewConnection of every pair
    chosen,      \* backend picked by createRemoteConnection
    herr,        \* error createRemoteConnection returned
    conns,       \* sockets and their Conn wrappers
    once,        \* closeOnce of every pair
    rpc,         \* position of the two relay goroutines of every pair
    nCloseAll,   \* how many times the closeAll body was entered
    delSkip,     \* handles whose delConn returned on ctx.Done()
    wg,          \* the WaitGroup counter of application.run
    appDone,     \* application.run has returned
    sent,        \* bytes the peer on the source side of a direction has sent
    nread,       \* how many of them the relay has read
    wrote,       \* bytes the relay has written to its sink
    pool,        \* bufPool: the buffers nobody holds
    bufmem,      \* contents of every pooled buffer
    held,        \* the buffer a relay got from getBuf
    chunk,       \* length of the chunk the last Read of a relay returned
    dpc          \* position of a relay inside its copy loop

coreVars == <<cancelled, active, bconns, bmu, brun, hc, hcRes, hcStale, fconns,
              fmu, frun, listener, lpc, hpc, chosen, herr, conns, once, rpc,
              nCloseAll, delSkip, wg, appDone>>
dataVars == <<sent, nread, wrote, pool, bufmem, held, chunk, dpc>>
vars == <<coreVars, dataVars>>

backVars == <<active, bconns, bmu, brun, hc, hcRes, hcStale>>
frontVars == <<fconns, fmu, frun, listener, lpc>>
pairVars == <<hpc, chosen, herr, conns, once, rpc, nCloseAll, delSkip>>
appVars == <<wg, appDone, dataVars>>

Pairs == DOMAIN hpc
Backends == DOMAIN active
Handles == DOMAIN conns
FDs == DOMAIN fconns

\* a pair p owns two handles: the accepted client socket and the dialled one
ClientOf(p) == 2 * p - 1
RemoteOf(p) == 2 * p
PairOf(h) == (h + 1) \div 2

\* ------------------------------------------------------------------------
\* Conn (conn.go)
\* ------------------------------------------------------------------------
NewSock == [fd |-> 0, open |-> FALSE, closed |-> FALSE, nclose |-> 0,
            ret |-> "none"]

\* the kernel hands out the lowest descriptor that is not open
UsedFds(cs) == {cs[h].fd : h \in {x \in DOMAIN cs : cs[x].open}}
fdFromConn(cs) == CHOOSE f \in DOMAIN cs \ UsedFds(cs) :
                      \A g \in DOMAIN cs \ UsedFds(cs) : f <= g

\* Close without the CompareAndSwap guard: every call closes the socket
Close_Unguarded(cs, h) ==
    [cs EXCEPT ![h].closed = TRUE, ![h].open = FALSE, ![h].nclose = @ + 1,
               ![h].ret = "sock"]

\* Conn.Close: CompareAndSwap(false, true) guards the socket's Close
Close(cs, h) ==
    IF ~cs[h].closed
    THEN [cs EXCEPT ![h].closed = TRUE, ![h].open = FALSE,
                    ![h].nclose = @ + 1, ![h].ret = "sock"]
    ELSE [cs EXCEPT ![h].ret = "nil"]

\* a Close of the accepted socket that leaves it open
RawClose_Skip(cs, h) == cs

\* net.Conn.Close on the raw accepted socket (no Conn wrapper yet)
RawClose(cs, h) == [cs EXCEPT ![h].open = FALSE, ![h].nclose = @ + 1]

\* addConn that stores every handle under one key
mapInsert_OneKey(m, f, h) == [m EXCEPT ![1] = h]

\* addConn: connections[conn.fd] = conn
mapInsert(m, f, h) == [m EXCEPT ![f] = h]

\* delConn that takes the lock and deletes nothing
mapDelete_Nothing(m, f) == m

\* delConn: delete(connections, conn.fd)
mapDelete(m, f) == [m EXCEPT ![f] = NoConn]

\* the handles a connections map holds
Tracked(m) == {m[f] : f \in DOMAIN m} \ {NoConn}

\* for _, conn := range connections { conn.Close() }
CloseEach(cs, m) ==
    [h \in DOMAIN cs |-> IF h \in Tracked(m) THEN Close(cs, h)[h] ELSE cs[h]]

\* ------------------------------------------------------------------------
\* Backend (backend.go)
\* ------------------------------------------------------------------------
\* a setActive that marks the backend active whatever it is told
setActive_Always(act, b, t) == [act EXCEPT ![b] = TRUE]

\* setActive: active.CompareAndSwap(!t, t)
setActive(act, b, t) == IF act[b] = ~t THEN [act EXCEPT ![b] = t] ELSE act

\* getConnCount that reports an empty map whatever it holds
getConnCount_Empty(b) == 0

\* getConnCount: len(b.connections)
getConnCount(b) == Cardinality({f \in DOMAIN bconns[b] : bconns[b][f] # NoConn})

\* createRemoteConnection, selection part: the first active backend with the
\* least connections, 0 when no backend is active
RECURSIVE ScanBackends(_, _)
ScanBackends(i, best) ==
    IF i \notin Backends THEN best
    ELSE IF active[i] /\ (best = 0 \/ getConnCount(i) < getConnCount(best))
         THEN ScanBackends(i + 1, i)
         ELSE ScanBackends(i + 1, best)

getNextBackend == ScanBackends(1, 0)

\* the state newBackend, newFrontend and application.run leave behind:
\* nb backends, room for np accepted clients
Constructed(nb, np) ==
    /\ cancelled = FALSE
    /\ active = [b \in 1..nb |-> FALSE]
    /\ bconns = [b \in 1..nb |-> [f \in 1..(2 * np) |-> NoConn]]
    /\ bmu = [b \in 1..nb |-> "free"]
    /\ brun = [b \in 1..nb |-> "start"]
    /\ hc = [b \in 1..nb |-> "idle"]
    /\ hcRes = [b \in 1..nb |-> "none"]
    /\ hcStale = [b \in 1..nb |-> FALSE]
    /\ fconns = [f \in 1..(2 * np) |-> NoConn]
    /\ fmu = "free"
    /\ frun = "bind"
    /\ listener = "none"
    /\ lpc = "idle"
    /\ hpc = [p \in 1..np |-> "none"]
    /\ chosen = [p \in 1..np |-> 0]
    /\ herr = [p \in 1..np |-> "none"]
    /\ conns = [h \in 1..(2 * np) |-> NewSock]
    /\ once = [p \in 1..np |-> "new"]
    /\ rpc = [p \in 1..np |-> [r \in Dirs |-> "idle"]]
    /\ nCloseAll = [p \in 1..np |-> 0]
    /\ delSkip = {}
    /\ wg = nb + 1
    /\ appDone = FALSE

\* the same system once every run has started, the listener is bound and
\* the first health check of every backend has left the flags act behind
Started(act, np) ==
    /\ cancelled = FALSE
    /\ active = act
    /\ bconns = [b \in DOMAIN act |-> [f \in 1..(2 * np) |-> NoConn]]
    /\ bmu = [b \in DOMAIN act |-> "free"]
    /\ brun = [b \in DOMAIN act |-> "wait"]
    /\ hc = [b \in DOMAIN act |-> "tick"]
    /\ hcRes = [b \in DOMAIN act |-> "none"]
    /\ hcStale = [b \in DOMAIN act |-> FALSE]
    /\ fconns = [f \in 1..(2 * np) |-> NoConn]
    /\ fmu = "free"
    /\ frun = "wait"
    /\ listener = "open"
    /\ lpc = "check"
    /\ hpc = [p \in 1..np |-> "none"]
    /\ chosen = [p \in 1..np |-> 0]
    /\ herr = [p \in 1..np |-> "none"]
    /\ conns = [h \in 1..(2 * np) |-> NewSock]
    /\ once = [p \in 1..np |-> "new"]
    /\ rpc = [p \in 1..np |-> [r \in Dirs |-> "idle"]]
    /\ nCloseAll = [p \in 1..np |-> 0]
    /\ delSkip = {}
    /\ wg = Cardinality(DOMAIN act) + 1
    /\ appDone = FALSE

\* no relay has borrowed a buffer, no peer has sent a byte
NoData ==
    /\ sent = [d \in Dirs |-> <<>>]
    /\ nread = [d \in Dirs |-> 0]
    /\ wrote = [d \in Dirs |-> <<>>]
    /\ pool = Dirs
    /\ bufmem = [k \in Dirs |-> [i \in 1..BufSize |-> 0]]
    /\ held = [d \in Dirs |-> 0]
    /\ chunk = [d \in Dirs |-> 0]
    /\ dpc = [d \in Dirs |-> "start"]

Init == Constructed(FullBackends, FullPairs) /\ NoData

StartInit == Constructed(1, StartPairs) /\ NoData

ProbeInit == Constructed(ProbeBackends, 1) /\ NoData

\* one backend, found healthy or unhealthy by its first probe
LifeInit == \E a \in BOOLEAN : Started(<<a>>, LifePairs) /\ NoData

ReuseInit == \E a \in BOOLEAN : Started(<<a>>, ReusePairs) /\ NoData

SelInit == \E act \in [1..SelBackends -> BOOLEAN] : Started(act, SelPairs) /\ NoData

\* two backends, both active and idle
SeqInit == Started(<<TRUE, TRUE>>, SeqPairs) /\ NoData

\* one backend, one pair whose handler has spawned both relay goroutines
RelayInit ==
    /\ cancelled = FALSE
    /\ active = <<TRUE>>
    /\ bconns = <<[f \in 1..2 |-> IF f = 2 THEN 2 ELSE NoConn]>>
    /\ bmu = <<"free">>
    /\ brun = <<"wait">>
    /\ hc = <<"tick">>
    /\ hcRes = <<"none">>
    /\ hcStale = <<FALSE>>
    /\ fconns = [f \in 1..2 |-> IF f = 1 THEN 1 ELSE NoConn]
    /\ fmu = "free"
    /\ frun = "wait"
    /\ listener = "open"
    /\ lpc = "check"
    /\ hpc = <<"relay">>
    /\ chosen = <<1>>
    /\ herr = <<"none">>
    /\ conns = [h \in 1..2 |-> [NewSock EXCEPT !.fd = h, !.open = TRUE]]
    /\ once = <<"new">>
    /\ rpc = <<[r \in Dirs |-> "copy"]>>
    /\ nCloseAll = <<0>>
    /\ delSkip = {}
    /\ wg = 2
    /\ appDone = FALSE
    /\ NoData

\* the interrupt signal cancels the context
Cancel ==
    /\ ~cancelled
    /\ cancelled' = TRUE
    /\ UNCHANGED <<backVars, frontVars, pairVars, appVars>>

\* backend.run: go b.runHealthcheck()
BackendRunStart(b) ==
    /\ brun[b] = "start"
    /\ brun' = [brun EXCEPT ![b] = "wait"]
    /\ hc' = [hc EXCEPT ![b] = "first"]
    /\ UNCHANGED <<cancelled, active, bconns, bmu, hcRes, hcStale, frontVars,
                   pairVars, appVars>>

\* backend.run: <-b.ctx.Done(); b.rmu.RLock()
BackendRunLock(b) ==
    /\ brun[b] = "wait"
    /\ cancelled
    /\ brun' = [brun EXCEPT ![b] = "iter"]
    /\ bmu' = [bmu EXCEPT ![b] = "R"]
    /\ UNCHANGED <<cancelled, active, bconns, hc, hcRes, hcStale, frontVars,
                   pairVars, appVars>>

\* backend.run: close every tracked connection, RUnlock, wg.Done
BackendRunClose(b) ==
    /\ brun[b] = "iter"
    /\ conns' = CloseEach(conns, bconns[b])
    /\ bmu' = [bmu EXCEPT ![b] = "free"]
    /\ brun' = [brun EXCEPT ![b] = "done"]
    /\ wg' = wg - 1
    /\ UNCHANGED <<cancelled, active, bconns, hc, hcRes, hcStale, frontVars,
                   hpc, chosen, herr, once, rpc, nCloseAll, delSkip, appDone, dataVars>>

\* runHealthcheck: DialContext of the first check or of a tick
HealthDial(b) ==
    /\ hc[b] \in {"first", "tick"}
    /\ \E res \in (IF cancelled THEN {"err"} ELSE {"ok", "err"}) :
           hcRes' = [hcRes EXCEPT ![b] = res]
    /\ hc' = [hc EXCEPT ![b] = "set"]
    /\ hcStale' = [hcStale EXCEPT ![b] = FALSE]
    /\ UNCHANGED <<cancelled, active, bconns, bmu, brun, frontVars, pairVars,
                   appVars>>

\* a health check that also closes the backend's connections when it fails
HealthSet_Drop(b) ==
    /\ hc[b] = "set"
    /\ active' = setActive(active, b, hcRes[b] = "ok")
    /\ conns' = IF hcRes[b] = "err" THEN CloseEach(conns, bconns[b]) ELSE conns
    /\ hcRes' = [hcRes EXCEPT ![b] = "none"]
    /\ hc' = [hc EXCEPT ![b] = "tick"]
    /\ UNCHANGED <<cancelled, bconns, bmu, brun, hcStale, frontVars, hpc,
                   chosen, herr, once, rpc, nCloseAll, delSkip, appVars>>

\* runHealthcheck: netConn.Close() of the probe socket and setActive
HealthSet(b) ==
    /\ hc[b] = "set"
    /\ active' = setActive(active, b, hcRes[b] = "ok")
    /\ hcRes' = [hcRes EXCEPT ![b] = "none"]
    /\ hc' = [hc EXCEPT ![b] = "tick"]
    /\ UNCHANGED <<cancelled, bconns, bmu, brun, hcStale, frontVars, pairVars,
                   appVars>>

\* runHealthcheck: case <-b.ctx.Done(): return
HealthExit(b) ==
    /\ hc[b] = "tick"
    /\ cancelled
    /\ hc' = [hc EXCEPT ![b] = "done"]
    /\ UNCHANGED <<cancelled, active, bconns, bmu, brun, hcRes, hcStale,
                   frontVars, pairVars, appVars>>

\* ------------------------------------------------------------------------
\* Frontend (frontend.go)
\* ------------------------------------------------------------------------
\* a bind loop that never looks at ctx.Done()
FrontendBindCheck_NoCancel ==
    /\ frun = "bind"
    /\ frun' = "listen"
    /\ UNCHANGED <<cancelled, backVars, fconns, fmu, listener, lpc, pairVars,
                   appVars>>

\* frontend.run, bind loop: select on ctx.Done() before every attempt
FrontendBindCheck ==
    /\ frun = "bind"
    /\ IF cancelled
       THEN /\ frun' = "done"
            /\ wg' = wg - 1
       ELSE /\ frun' = "listen"
            /\ wg' = wg
    /\ UNCHANGED <<cancelled, backVars, fconns, fmu, listener, lpc, pairVars,
                   appDone, dataVars>>

\* frontend.run: net.ListenTCP succeeds; go f.listenForNewConn()
FrontendListenOk ==
    /\ frun = "listen"
    /\ listener' = "open"
    /\ lpc' = "check"
    /\ frun' = "wait"
    /\ UNCHANGED <<cancelled, backVars, fconns, fmu, pairVars, appVars>>

\* frontend.run: net.ListenTCP fails; time.Sleep(5s); continue
FrontendListenFail ==
    /\ frun = "listen"
    /\ frun' = "sleep"
    /\ UNCHANGED <<cancelled, backVars, fconns, fmu, listener, lpc, pairVars,
                   appVars>>

FrontendSleepDone ==
    /\ frun = "sleep"
    /\ frun' = "bind"
    /\ UNCHANGED <<cancelled, backVars, fconns, fmu, listener, lpc, pairVars,
                   appVars>>

\* frontend.run: <-f.ctx.Done(); f.tcpListener.Close(); f.rmu.RLock()
FrontendRunLock ==
    /\ frun = "wait"
    /\ cancelled
    /\ listener' = "closed"
    /\ fmu' = "R"
    /\ frun' = "iter"
    /\ UNCHANGED <<cancelled, backVars, fconns, lpc, pairVars, appVars>>

\* frontend.run: close every tracked connection, RUnlock, wg.Done
FrontendRunClose ==
    /\ frun = "iter"
    /\ conns' = CloseEach(conns, fconns)
    /\ fmu' = "free"
    /\ frun' = "done"
    /\ wg' = wg - 1
    /\ UNCHANGED <<cancelled, backVars, fconns, listener, lpc, hpc, chosen,
                   herr, once, rpc, nCloseAll, delSkip, appDone, dataVars>>

\* listenForNewConn: select on ctx.Done() at the top of the loop
ListenCheck ==
    /\ lpc = "check"
    /\ lpc' = IF cancelled THEN "done" ELSE "accept"
    /\ UNCHANGED <<cancelled, backVars, fconns, fmu, frun, listener, pairVars,
                   appVars>>

\* the next unused pair slot
NextPair == CHOOSE p \in Pairs : hpc[p] = "none" /\ \A q \in Pairs : q < p => hpc[q] # "none"

\* listenForNewConn: AcceptTCP returns a client; go f.handleNewConnection
AcceptOk ==
    /\ lpc = "accept"
    /\ listener = "open"
    /\ \E p \in Pairs : hpc[p] = "none"
    /\ LET p == NextPair
           c == ClientOf(p)
       IN /\ conns' = [conns EXCEPT ![c].fd = fdFromConn(conns),
                                    ![c].open = TRUE]
          /\ hpc' = [hpc EXCEPT ![p] = "select"]
    /\ lpc' = "check"
    /\ UNCHANGED <<cancelled, backVars, fconns, fmu, frun, listener, chosen,
                   herr, once, rpc, nCloseAll, delSkip, appVars>>

\* listenForNewConn: AcceptTCP fails with another error; continue
AcceptError ==
    /\ lpc = "accept"
    /\ listener = "open"
    /\ lpc' = "check"
    /\ UNCHANGED <<cancelled, backVars, fconns, fmu, frun, listener, pairVars,
                   appVars>>

\* an accept loop that treats the closed listener like any other error
AcceptClosed_Retry ==
    /\ lpc = "accept"
    /\ listener = "closed"
    /\ lpc' = "check"
    /\ UNCHANGED <<cancelled, backVars, fconns, fmu, frun, listener, pairVars,
                   appVars>>

\* listenForNewConn: "use of closed network connection"; break
AcceptClosed ==
    /\ lpc = "accept"
    /\ listener = "closed"
    /\ lpc' = "done"
    /\ UNCHANGED <<cancelled, backVars, fconns, fmu, frun, listener, pairVars,
                   appVars>>

\* ------------------------------------------------------------------------
\* handleNewConnection
\* ------------------------------------------------------------------------
\* the error path returning without netConn.Close()
HandlerNoBackend_Leak(p) ==
    /\ hpc[p] = "select"
    /\ getNextBackend = 0
    /\ herr' = [herr EXCEPT ![p] = "NoBackend"]
    /\ hpc' = [hpc EXCEPT ![p] = "failed"]
    /\ UNCHANGED <<cancelled, backVars, frontVars, chosen, conns, once, rpc,
                   nCloseAll, delSkip, appVars>>

\* createRemoteConnection finds no active backend: netConn.Close(); return
HandlerNoBackend(p) ==
    /\ hpc[p] = "select"
    /\ getNextBackend = 0
    /\ herr' = [herr EXCEPT ![p] = "NoBackend"]
    /\ conns' = RawClose(conns, ClientOf(p))
    /\ hpc' = [hpc EXCEPT ![p] = "failed"]
    /\ UNCHANGED <<cancelled, backVars, frontVars, chosen, once, rpc,
                   nCloseAll, delSkip, appVars>>

\* createRemoteConnection picks the backend to dial
HandlerSelect(p) ==
    /\ hpc[p] = "select"
    /\ getNextBackend # 0
    /\ chosen' = [chosen EXCEPT ![p] = getNextBackend]
    /\ hpc' = [hpc EXCEPT ![p] = "dial"]
    /\ UNCHANGED <<cancelled, backVars, frontVars, herr, conns, once, rpc,
                   nCloseAll, delSkip, appVars>>

\* backend.createConn succeeds; newConn(netConn, backend)
HandlerDialOk(p) ==
    /\ hpc[p] = "dial"
    /\ ~cancelled
    /\ conns' = [conns EXCEPT ![RemoteOf(p)].fd = fdFromConn(conns),
                              ![RemoteOf(p)].open = TRUE]
    /\ hpc' = [hpc EXCEPT ![p] = "addR"]
    /\ UNCHANGED <<cancelled, backVars, frontVars, chosen, herr, once, rpc,
                   nCloseAll, delSkip, appVars>>

\* backend.createConn fails: setActive(false); the handler closes the client
HandlerDialFail(p) ==
    /\ hpc[p] = "dial"
    /\ active' = setActive(active, chosen[p], FALSE)
    /\ hcStale' = [hcStale EXCEPT ![chosen[p]] =
                      @ \/ (active[chosen[p]] /\ hcRes[chosen[p]] = "ok")]
    /\ herr' = [herr EXCEPT ![p] = "DialError"]
    /\ conns' = RawClose(conns, ClientOf(p))
    /\ hpc' = [hpc EXCEPT ![p] = "failed"]
    /\ UNCHANGED <<cancelled, bconns, bmu, brun, hc, hcRes, frontVars, chosen,
                   once, rpc, nCloseAll, delSkip, appVars>>

\* backend.addConn(rConn), first half: close on ctx.Done()
BackendAddConnCheck(p) ==
    /\ hpc[p] = "addR"
    /\ conns' = IF cancelled THEN Close(conns, RemoteOf(p)) ELSE conns
    /\ hpc' = [hpc EXCEPT ![p] = "insR"]
    /\ UNCHANGED <<cancelled, backVars, frontVars, chosen, herr, once, rpc,
                   nCloseAll, delSkip, appVars>>

\* backend.addConn(rConn), second half: Lock; connections[fd] = conn
BackendAddConnInsert(p) ==
    /\ hpc[p] = "insR"
    /\ bmu[chosen[p]] = "free"
    /\ bconns' = [bconns EXCEPT ![chosen[p]] =
                      mapInsert(@, conns[RemoteOf(p)].fd, RemoteOf(p))]
    /\ hpc' = [hpc EXCEPT ![p] = "addC"]
    /\ UNCHANGED <<cancelled, active, bmu, brun, hc, hcRes, hcStale, frontVars,
                   chosen, herr, conns, once, rpc, nCloseAll, delSkip, appVars>>

\* newConn(netConn, f); frontend.addConn(conn), first half
FrontendAddConnCheck(p) ==
    /\ hpc[p] = "addC"
    /\ conns' = IF cancelled THEN Close(conns, ClientOf(p)) ELSE conns
    /\ hpc' = [hpc EXCEPT ![p] = "insC"]
    /\ UNCHANGED <<cancelled, backVars, frontVars, chosen, herr, once, rpc,
                   nCloseAll, delSkip, appVars>>

\* frontend.addConn(conn), second half; then the two relay goroutines start
FrontendAddConnInsert(p) ==
    /\ hpc[p] = "insC"
    /\ fmu = "free"
    /\ fconns' = mapInsert(fconns, conns[ClientOf(p)].fd, ClientOf(p))
    /\ hpc' = [hpc EXCEPT ![p] = "relay"]
    /\ rpc' = [rpc EXCEPT ![p] = [r \in Dirs |-> "copy"]]
    /\ UNCHANGED <<cancelled, backVars, fmu, frun, listener, lpc, chosen, herr,
                   conns, once, nCloseAll, delSkip, appVars>>

\* ------------------------------------------------------------------------
\* relay goroutines and closeAll
\* ------------------------------------------------------------------------
\* relay 1 copies rConn -> conn, relay 2 copies conn -> rConn
SourceOf(p, r) == IF r = 1 THEN RemoteOf(p) ELSE ClientOf(p)

\* a latch that only remembers a finished body: a second caller arriving
\* while the body runs enters it too
OnceFirst_Racy(p) == once[p] # "done"

\* sync.Once: the caller that finds the latch untouched runs the body
OnceFirst(p) == once[p] = "new"

\* the relay has left its copy loop and calls closeOnce.Do(closeAll): the
\* first caller enters the body, a later one waits until the body has returned
OnceDo(p, r) ==
    IF OnceFirst(p)
    THEN /\ once' = [once EXCEPT ![p] = "running"]
         /\ nCloseAll' = [nCloseAll EXCEPT ![p] = @ + 1]
         /\ rpc' = [rpc EXCEPT ![p][r] = "close"]
    ELSE /\ rpc' = [rpc EXCEPT ![p][r] = IF once[p] = "done" THEN "done" ELSE "once"]
         /\ UNCHANGED <<once, nCloseAll>>

\* io.CopyBuffer fails because the source socket was closed locally
RelayClosed(p, r) ==
    /\ rpc[p][r] = "copy"
    /\ conns[SourceOf(p, r)].closed
    /\ OnceDo(p, r)
    /\ UNCHANGED <<cancelled, backVars, frontVars, hpc, chosen, herr, conns,
                   delSkip, appVars>>

\* io.CopyBuffer ends because of the peer: EOF, reset, or a write that fails
RelayPeer(p, r) ==
    /\ rpc[p][r] = "copy"
    /\ OnceDo(p, r)
    /\ UNCHANGED <<cancelled, backVars, frontVars, hpc, chosen, herr, conns,
                   delSkip, appVars>>

\* closeOnce.Do returns to a caller that waited for the body to finish
OnceReturn(p, r) ==
    /\ rpc[p][r] = "once"
    /\ once[p] = "done"
    /\ rpc' = [rpc EXCEPT ![p][r] = "done"]
    /\ UNCHANGED <<cancelled, backVars, frontVars, hpc, chosen, herr, conns,
                   once, nCloseAll, delSkip, appVars>>

\* a closeAll that closes the client connection and forgets the upstream one
CloseAllClose_ClientOnly(p, r) ==
    /\ rpc[p][r] = "close"
    /\ conns' = Close(conns, ClientOf(p))
    /\ rpc' = [rpc EXCEPT ![p][r] = "delC"]
    /\ UNCHANGED <<cancelled, backVars, frontVars, hpc, chosen, herr, once,
                   nCloseAll, delSkip, appVars>>

\* closeAll: conn.Close(); rConn.Close()
CloseAllClose(p, r) ==
    /\ rpc[p][r] = "close"
    /\ conns' = Close(Close(conns, ClientOf(p)), RemoteOf(p))
    /\ rpc' = [rpc EXCEPT ![p][r] = "delC"]
    /\ UNCHANGED <<cancelled, backVars, frontVars, hpc, chosen, herr, once,
                   nCloseAll, delSkip, appVars>>

\* closeAll: conn.manager.delConn(conn)
FrontendDelConn(p, r) ==
    /\ rpc[p][r] = "delC"
    /\ IF cancelled
       THEN /\ delSkip' = delSkip \cup {ClientOf(p)}
            /\ fconns' = fconns
       ELSE /\ fmu = "free"
            /\ fconns' = mapDelete(fconns, conns[ClientOf(p)].fd)
            /\ delSkip' = delSkip
    /\ rpc' = [rpc EXCEPT ![p][r] = "delR"]
    /\ UNCHANGED <<cancelled, backVars, fmu, frun, listener, lpc, hpc, chosen,
                   herr, conns, once, nCloseAll, appVars>>

\* closeAll: rConn.manager.delConn(rConn); the once body returns
BackendDelConn(p, r) ==
    /\ rpc[p][r] = "delR"
    /\ IF cancelled
       THEN /\ delSkip' = delSkip \cup {RemoteOf(p)}
            /\ bconns' = bconns
       ELSE /\ bmu[chosen[p]] = "free"
            /\ bconns' = [bconns EXCEPT ![chosen[p]] =
                              mapDelete(@, conns[RemoteOf(p)].fd)]
            /\ delSkip' = delSkip
    /\ once' = [once EXCEPT ![p] = "done"]
    /\ rpc' = [rpc EXCEPT ![p][r] = "done"]
    /\ UNCHANGED <<cancelled, active, bmu, brun, hc, hcRes, hcStale, frontVars,
                   hpc, chosen, herr, conns, nCloseAll, appVars>>

\* ------------------------------------------------------------------------
\* the copy loop of a relay goroutine, byte by byte
\* ------------------------------------------------------------------------
Min(a, b) == IF a < b THEN a ELSE b

\* a Get that hands the buffer out and leaves it in the pool
poolGet_Shared(k) == pool

\* bufPool.Get takes the buffer out of the pool
poolGet(k) == pool \ {k}

\* the peer at the source end of direction d sends one more byte
PeerSend(d, x) ==
    /\ dpc[d] \in {"start", "read", "write"}
    /\ Len(sent[d]) < MaxBytes
    /\ sent' = [sent EXCEPT ![d] = Append(@, x)]
    /\ UNCHANGED <<coreVars, nread, wrote, pool, bufmem, held, chunk, dpc>>

\* buf := f.getBuf()
RelayGetBuf(d) ==
    /\ dpc[d] = "start"
    /\ \E k \in pool :
           /\ held' = [held EXCEPT ![d] = k]
           /\ pool' = poolGet(k)
    /\ dpc' = [dpc EXCEPT ![d] = "read"]
    /\ UNCHANGED <<coreVars, sent, nread, wrote, bufmem, chunk>>

\* io.CopyBuffer: src.Read(buf) returns n > 0 bytes
CopyRead(d) ==
    /\ dpc[d] = "read"
    /\ \E n \in 1..Min(BufSize, Len(sent[d]) - nread[d]) :
           /\ bufmem' = [bufmem EXCEPT ![held[d]] =
                  [i \in 1..BufSize |-> IF i <= n THEN sent[d][nread[d] + i]
                                        ELSE @[i]]]
           /\ chunk' = [chunk EXCEPT ![d] = n]
           /\ nread' = [nread EXCEPT ![d] = @ + n]
    /\ dpc' = [dpc EXCEPT ![d] = "write"]
    /\ UNCHANGED <<coreVars, sent, wrote, pool, held>>

\* io.CopyBuffer: dst.Write(buf[0:n]) writes the whole chunk
CopyWrite(d) ==
    /\ dpc[d] = "write"
    /\ wrote' = [wrote EXCEPT ![d] =
                    @ \o [i \in 1..chunk[d] |-> bufmem[held[d]][i]]]
    /\ dpc' = [dpc EXCEPT ![d] = "read"]
    /\ UNCHANGED <<coreVars, sent, nread, pool, bufmem, held, chunk>>

\* io.CopyBuffer: dst.Write fails after k < n bytes; the relay loop breaks
CopyWriteFail(d) ==
    /\ dpc[d] = "write"
    /\ \E k \in 0..(chunk[d] - 1) :
           wrote' = [wrote EXCEPT ![d] =
                        @ \o [i \in 1..k |-> bufmem[held[d]][i]]]
    /\ dpc' = [dpc EXCEPT ![d] = "exit"]
    /\ UNCHANGED <<coreVars, sent, nread, pool, bufmem, held, chunk>>

\* io.CopyBuffer: src.Read returns EOF or an error; the relay loop breaks
CopyEnd(d) ==
    /\ dpc[d] = "read"
    /\ dpc' = [dpc EXCEPT ![d] = "exit"]
    /\ UNCHANGED <<coreVars, sent, nread, wrote, pool, bufmem, held, chunk>>

\* defer f.bufPool.Put(buf)
RelayPutBuf(d) ==
    /\ dpc[d] = "exit"
    /\ pool' = pool \cup {held[d]}
    /\ held' = [held EXCEPT ![d] = 0]
    /\ dpc' = [dpc EXCEPT ![d] = "done"]
    /\ UNCHANGED <<coreVars, sent, nread, wrote, bufmem, chunk>>

\* ------------------------------------------------------------------------
\* application.run
\* ------------------------------------------------------------------------
\* wg.Wait() returns; the supervisor logs "shutdown complete"
AppRunReturn ==
    /\ ~appDone
    /\ wg = 0
    /\ appDone' = TRUE
    /\ UNCHANGED <<cancelled, backVars, frontVars, pairVars, wg, dataVars>>

Next ==
    \/ Cancel
    \/ \E b \in Backends : BackendRunStart(b)
    \/ \E b \in Backends : BackendRunLock(b)
    \/ \E b \in Backends : BackendRunClose(b)
    \/ \E b \in Backends : HealthDial(b)
    \/ \E b \in Backends : HealthSet(b)
    \/ \E b \in Backends : HealthExit(b)
    \/ FrontendBindCheck
    \/ FrontendListenOk
    \/ FrontendListenFail
    \/ FrontendSleepDone
    \/ FrontendRunLock
    \/ FrontendRunClose
    \/ ListenCheck
    \/ AcceptOk
    \/ AcceptError
    \/ AcceptClosed
    \/ \E p \in Pairs : HandlerNoBackend(p)
    \/ \E p \in Pairs : HandlerSelect(p)
    \/ \E p \in Pairs : HandlerDialOk(p)
    \/ \E p \in Pairs : HandlerDialFail(p)
    \/ \E p \in Pairs : BackendAddConnCheck(p)
    \/ \E p \in Pairs : BackendAddConnInsert(p)
    \/ \E p \in Pairs : FrontendAddConnCheck(p)
    \/ \E p \in Pairs : FrontendAddConnInsert(p)
    \/ \E p \in Pairs, r \in Dirs : RelayClosed(p, r)
    \/ \E p \in Pairs, r \in Dirs : RelayPeer(p, r)
    \/ \E p \in Pairs, r \in Dirs : OnceReturn(p, r)
    \/ \E p \in Pairs, r \in Dirs : CloseAllClose(p, r)
    \/ \E p \in Pairs, r \in Dirs : FrontendDelConn(p, r)
    \/ \E p \in Pairs, r \in Dirs : BackendDelConn(p, r)
    \/ AppRunReturn

Spec == Init /\ [][Next]_vars

\* start-up, health checks, bind loop, accept loop, handlers and shutdown; the
\* connections that get established stay open unless shutdown closes them
StartNext ==
    \/ Cancel
    \/ \E b \in Backends : BackendRunStart(b)
    \/ \E b \in Backends : BackendRunLock(b)
    \/ \E b \in Backends : BackendRunClose(b)
    \/ \E b \in Backends : HealthDial(b)
    \/ \E b \in Backends : HealthSet(b)
    \/ \E b \in Backends : HealthExit(b)
    \/ FrontendBindCheck
    \/ FrontendListenOk
    \/ FrontendListenFail
    \/ FrontendSleepDone
    \/ FrontendRunLock
    \/ FrontendRunClose
    \/ ListenCheck
    \/ AcceptOk
    \/ AcceptError
    \/ AcceptClosed
    \/ \E p \in Pairs : HandlerNoBackend(p)
    \/ \E p \in Pairs : HandlerSelect(p)
    \/ \E p \in Pairs : HandlerDialOk(p)
    \/ \E p \in Pairs : HandlerDialFail(p)
    \/ \E p \in Pairs : BackendAddConnCheck(p)
    \/ \E p \in Pairs : BackendAddConnInsert(p)
    \/ \E p \in Pairs : FrontendAddConnCheck(p)
    \/ \E p \in Pairs : FrontendAddConnInsert(p)

StartSpec == StartInit /\ [][StartNext]_vars

ProbeSpec == ProbeInit /\ [][StartNext]_vars

\* pairs and shutdown: the system is up, the probes have succeeded and no
\* ticker fires any more
LifeNext ==
    \/ Cancel
    \/ \E b \in Backends : BackendRunLock(b)
    \/ \E b \in Backends : BackendRunClose(b)
    \/ \E b \in Backends : HealthExit(b)
    \/ FrontendRunLock
    \/ FrontendRunClose
    \/ ListenCheck
    \/ AcceptOk
    \/ AcceptClosed
    \/ \E p \in Pairs : HandlerNoBackend(p)
    \/ \E p \in Pairs : HandlerSelect(p)
    \/ \E p \in Pairs : HandlerDialOk(p)
    \/ \E p \in Pairs : HandlerDialFail(p)
    \/ \E p \in Pairs : BackendAddConnCheck(p)
    \/ \E p \in Pairs : BackendAddConnInsert(p)
    \/ \E p \in Pairs : FrontendAddConnCheck(p)
    \/ \E p \in Pairs : FrontendAddConnInsert(p)
    \/ \E p \in Pairs, r \in Dirs : RelayClosed(p, r)
    \/ \E p \in Pairs, r \in Dirs : RelayPeer(p, r)
    \/ \E p \in Pairs, r \in Dirs : OnceReturn(p, r)
    \/ \E p \in Pairs, r \in Dirs : CloseAllClose(p, r)
    \/ \E p \in Pairs, r \in Dirs : FrontendDelConn(p, r)
    \/ \E p \in Pairs, r \in Dirs : BackendDelConn(p, r)

LifeSpec == LifeInit /\ [][LifeNext]_vars

ReuseSpec == ReuseInit /\ [][LifeNext]_vars

\* selection: accepts and handlers of a started system in which no ticker
\* fires, nobody cancels and no connection ends
SelNext ==
    \/ ListenCheck
    \/ AcceptOk
    \/ \E p \in Pairs : HandlerNoBackend(p)
    \/ \E p \in Pairs : HandlerSelect(p)
    \/ \E p \in Pairs : HandlerDialOk(p)
    \/ \E p \in Pairs : HandlerDialFail(p)
    \/ \E p \in Pairs : BackendAddConnCheck(p)
    \/ \E p \in Pairs : BackendAddConnInsert(p)
    \/ \E p \in Pairs : FrontendAddConnCheck(p)
    \/ \E p \in Pairs : FrontendAddConnInsert(p)

SelSpec == SelInit /\ [][SelNext]_vars

\* AcceptTCP returns the next client only after every earlier handler has
\* registered its upstream connection: the clients connect one after another
SeqAccept ==
    /\ \A p \in Pairs : hpc[p] \in {"none", "addC", "insC", "relay"}
    /\ AcceptOk

\* sequential clients of a started system: every dial succeeds, nobody
\* cancels and no connection ends
SeqNext ==
    \/ ListenCheck
    \/ SeqAccept
    \/ \E p \in Pairs : HandlerSelect(p)
    \/ \E p \in Pairs : HandlerDialOk(p)
    \/ \E p \in Pairs : BackendAddConnCheck(p)
    \/ \E p \in Pairs : BackendAddConnInsert(p)
    \/ \E p \in Pairs : FrontendAddConnCheck(p)
    \/ \E p \in Pairs : FrontendAddConnInsert(p)

SeqSpec == SeqInit /\ [][SeqNext]_vars

\* the two relay goroutines of one pair and the peers that feed them
RelayNext ==
    \/ \E d \in Dirs, x \in Bytes : PeerSend(d, x)
    \/ \E d \in Dirs : RelayGetBuf(d)
    \/ \E d \in Dirs : CopyRead(d)
    \/ \E d \in Dirs : CopyWrite(d)
    \/ \E d \in Dirs : CopyWriteFail(d)
    \/ \E d \in Dirs : CopyEnd(d)
    \/ \E d \in Dirs : RelayPutBuf(d)

RelaySpec == RelayInit /\ [][RelayNext]_vars
\* ------------------------------------------------------------------------
\* Properties
\* ------------------------------------------------------------------------
PairHandles(p) == {ClientOf(p), RemoteOf(p)}
AnyMap == Tracked(fconns) \cup UNION {Tracked(bconns[b]) : b \in Backends}

\* C1: for every pair the closeAll body runs at most once and each of the two
\* sockets is closed at most once; as soon as one relay goroutine of the pair
\* has returned, the body has run exactly once and both sockets have been
\* closed exactly once, whatever shutdown closed in between.
PairwiseTeardownOnce ==
    \A p \in Pairs :
        /\ nCloseAll[p] <= 1
        /\ \A h \in PairHandles(p) : conns[h].nclose <= 1
        /\ (\E r \in Dirs : rpc[p][r] = "done") =>
               /\ nCloseAll[p] = 1
               /\ \A h \in PairHandles(p) : conns[h].nclose = 1

\* both relays of a pair have returned after a shutdown that closed the same
\* two handles as closeAll did
TeardownRacedShutdown ==
    \E p \in Pairs :
        /\ \A r \in Dirs : rpc[p][r] = "done"
        /\ cancelled /\ frun = "done" /\ \A b \in Backends : brun[b] = "done"
        /\ \A h \in PairHandles(p) : conns[h].ret = "nil"

\* C2 as stated: once closeAll has finished, neither handle of the pair is in
\* a connection map, also when closeAll runs after cancellation.
DeregisteredAfterCloseAll ==
    \A p \in Pairs :
        once[p] = "done" => PairHandles(p) \cap AnyMap = {}

\* C2 amended: once closeAll has finished, a handle of the pair whose delConn
\* did not find the context cancelled is in no connection map.
DeregisteredUnlessCancelled ==
    \A p \in Pairs :
        once[p] = "done" => (PairHandles(p) \ delSkip) \cap AnyMap = {}

\* closeAll has finished; the context was cancelled between its two delConn
\* calls, so the client handle was deleted and the upstream handle was not
CloseAllAcrossCancel ==
    \E p \in Pairs :
        /\ once[p] = "done"
        /\ ClientOf(p) \notin delSkip
        /\ RemoteOf(p) \in delSkip

\* steps the program takes on its own once it is scheduled: no new client, no
\* peer closing or sending, no signal
ProgramStep ==
    \/ \E b \in Backends : BackendRunLock(b) \/ BackendRunClose(b) \/ HealthExit(b)
    \/ FrontendRunLock \/ FrontendRunClose \/ ListenCheck \/ AcceptClosed
    \/ \E p \in Pairs :
           \/ HandlerNoBackend(p) \/ HandlerSelect(p) \/ HandlerDialFail(p)
           \/ BackendAddConnCheck(p) \/ BackendAddConnInsert(p)
           \/ FrontendAddConnCheck(p) \/ FrontendAddConnInsert(p)
    \/ \E p \in Pairs, r \in Dirs :
           \/ RelayClosed(p, r) \/ OnceReturn(p, r) \/ CloseAllClose(p, r)
           \/ FrontendDelConn(p, r) \/ BackendDelConn(p, r)

AllTasksReturned ==
    /\ \A b \in Backends : brun[b] = "done" /\ hc[b] = "done"
    /\ frun = "done"
    /\ lpc \in {"idle", "done"}
    /\ \A p \in Pairs : hpc[p] \in {"none", "failed", "relay"}
    /\ \A p \in Pairs, r \in Dirs : rpc[p][r] \in {"idle", "done"}

AllSocketsClosed == \A h \in Handles : ~conns[h].open

\* C3: after cancellation the program does not come to rest before every task
\* has returned and every socket is closed: a state in which the context is
\* cancelled and no step is left that needs no peer is a state of quiescence.
ShutdownQuiesces ==
    (cancelled /\ ~ENABLED ProgramStep) => (AllTasksReturned /\ AllSocketsClosed)

\* C4: a handle that addConn closed because the context was cancelled is not
\* inserted into the manager's map.
AddConnOnCancelledSkipsInsert ==
    [][\A p \in Pairs :
          /\ (hpc[p] = "insR" /\ conns[RemoteOf(p)].closed)
                 => RemoteOf(p) \notin Tracked(bconns'[chosen[p]])
          /\ (hpc[p] = "insC" /\ conns[ClientOf(p)].closed)
                 => ClientOf(p) \notin Tracked(fconns')]_vars

\* C5: however many times Close is called on a handle, the socket's close is
\* invoked exactly once, by the first call; every later call returns nil and
\* leaves the socket alone.
IdempotentClose ==
    \A h \in Handles :
        hpc[PairOf(h)] # "failed" =>
            /\ conns[h].ret = "none" => conns[h].nclose = 0 /\ ~conns[h].closed
            /\ conns[h].ret # "none" => conns[h].nclose = 1 /\ conns[h].closed
            /\ conns[h].closed => ~conns[h].open

\* some handle has received a Close call after its first one
ClosedAgain == \E h \in Handles : conns[h].ret = "nil" /\ conns[h].nclose = 1

\* C6: when application.run has returned, no health check, accept loop,
\* handler or relay goroutine is still running.
QuiescentWhenRunReturns ==
    appDone =>
        /\ \A b \in Backends : hc[b] \in {"idle", "done"}
        /\ lpc \in {"idle", "done"}
        /\ \A p \in Pairs : hpc[p] \in {"none", "failed", "relay"}
        /\ \A p \in Pairs, r \in Dirs : rpc[p][r] \in {"idle", "done"}

\* C7: the active flag of a backend goes from false to true only in the
\* setActive of a health check whose dial succeeded, and after a traffic dial
\* has demoted the backend only by a probe whose dial returned after that.
PassiveRecoveryNeedsFreshProbe ==
    [][\A b \in Backends :
          (~active[b] /\ active'[b]) =>
              (hc[b] = "set" /\ hcRes[b] = "ok" /\ ~hcStale[b])]_vars

MapLen(b) == Cardinality(Tracked(bconns[b]))

\* C8: the backend createRemoteConnection decides to dial is active, no active
\* backend holds fewer connections at that moment, and no earlier active
\* backend holds as few.
SelectionOptimal ==
    [][\A p \in Pairs :
          (hpc[p] = "select" /\ hpc'[p] = "dial") =>
              /\ chosen'[p] \in Backends
              /\ active[chosen'[p]]
              /\ \A j \in Backends :
                     active[j] =>
                         \/ MapLen(j) > MapLen(chosen'[p])
                         \/ (MapLen(j) = MapLen(chosen'[p]) /\ j >= chosen'[p])]_vars

\* the second backend was picked although the first is active, because the
\* first holds more connections
PickedLessLoaded ==
    \E p \in Pairs :
        /\ hpc[p] = "dial" /\ chosen[p] = 2
        /\ active[1] /\ active[2]
        /\ MapLen(1) > MapLen(2)

\* C9: a handler that asks for a backend while none is active gets NoBackend:
\* no backend is chosen or dialled, the accepted socket is closed, and no map
\* changes.
NoSelectionAmongInactive ==
    [][\A p \in Pairs :
          (hpc[p] = "select" /\ hpc'[p] # "select"
              /\ \A b \in Backends : ~active[b]) =>
              /\ hpc'[p] = "failed" /\ herr'[p] = "NoBackend"
              /\ chosen'[p] = 0
              /\ conns'[RemoteOf(p)] = NewSock
              /\ ~conns'[ClientOf(p)].open /\ conns'[ClientOf(p)].nclose = 1
              /\ fconns' = fconns /\ bconns' = bconns]_vars

\* a client was refused with NoBackend while every backend was inactive
RefusedNoBackend ==
    \E p \in Pairs :
        /\ hpc[p] = "failed" /\ herr[p] = "NoBackend"
        /\ \A b \in Backends : ~active[b]
        /\ conns[ClientOf(p)].nclose = 1 /\ conns[RemoteOf(p)] = NewSock

Prefix(s, t) == Len(s) <= Len(t) /\ \A i \in 1..Len(s) : s[i] = t[i]

\* C10: in each direction the bytes written to the sink are a prefix of the
\* bytes read from the source, and a relay about to read has written
\* everything it has read.
ByteExactRelay ==
    \A d \in Dirs :
        /\ nread[d] <= Len(sent[d])
        /\ Len(wrote[d]) <= nread[d]
        /\ Prefix(wrote[d], sent[d])
        /\ dpc[d] = "read" => Len(wrote[d]) = nread[d]

\* both directions have relayed two chunks with different bytes while the
\* other direction was relaying too
RelayedBothWays ==
    /\ \A d \in Dirs : dpc[d] = "read" /\ Len(wrote[d]) = 2
    /\ wrote[1] = <<0, 1>> /\ wrote[2] = <<1, 0>>
    /\ held[1] # held[2]

\* the pairs whose upstream connection is registered with backend b
Routed(b) == {p \in Pairs : hpc[p] \in {"addC", "insC", "relay"} /\ chosen[p] = b}

\* C11: when clients connect one after another to two active, idle backends,
\* every backend's map holds exactly the connections routed to it, the numbers
\* of connections any two backends hold never differ by more than one, and
\* once 10 connections are registered the first backend holds 5 and the
\* second holds 5.
BalancedSequential ==
    /\ \A b \in Backends : MapLen(b) = Cardinality(Routed(b))
    /\ \A i, j \in Backends : MapLen(i) - MapLen(j) <= 1
    /\ (Cardinality(UNION {Routed(b) : b \in Backends}) = 10) =>
           (MapLen(1) = 5 /\ MapLen(2) = 5)

\* ten sequential clients are being relayed, five by each backend
TenClientsFiveEach ==
    /\ Cardinality({p \in Pairs : hpc[p] = "relay"}) = 10
    /\ Cardinality(Routed(1)) = 5 /\ Cardinality(Routed(2)) = 5

\* C12: a registered handle leaves a connection map only through its own
\* delConn: no addConn of another handle overwrites its entry and no delConn of
\* another handle deletes it, also when the other connection was accepted or
\* dialled between the handle's close and its delConn in closeAll.
KeysIdentifyHandles ==
    [][/\ \A h \in Tracked(fconns) \ Tracked(fconns') :
              \E r \in Dirs : rpc[PairOf(h)][r] = "delC" /\ rpc'[PairOf(h)][r] = "delR"
       /\ \A b \in Backends : \A h \in Tracked(bconns[b]) \ Tracked(bconns'[b]) :
              \E r \in Dirs : rpc[PairOf(h)][r] = "delR" /\ rpc'[PairOf(h)][r] = "done"]_vars

\* C13: once the run of a backend or of the frontend has returned after
\* cancellation, every handle in that manager's connection map is closed,
\* whenever the addConn calls of the handlers ran.
RunClosesAllTracked ==
    /\ \A b \in Backends :
           brun[b] = "done" => \A h \in Tracked(bconns[b]) : conns[h].closed
    /\ frun = "done" => \A h \in Tracked(fconns) : conns[h].closed

\* LifeSpec under the scheduler's guarantee: a goroutine that can take a step
\* without waiting for a peer or a signal is eventually run
LiveSpec == LifeInit /\ [][LifeNext]_vars /\ WF_vars(ProgramStep)

RelayLeft(p, r) == rpc[p][r] \notin {"idle", "copy"}

\* C14: whenever one relay goroutine of a pair has left its copy loop, both
\* connections of the pair get closed and both relay goroutines of the pair
\* return.
OneExitEndsPair ==
    \A p \in 1..LifePairs :
        (\E r \in Dirs : RelayLeft(p, r)) ~>
            (/\ \A h \in PairHandles(p) : conns[h].closed /\ ~conns[h].open
             /\ \A r \in Dirs : rpc[p][r] = "done")

\* before any cancellation both relays of a pair have returned and both
\* sockets are closed: the first exit was caused by a peer, the second by
\* closeAll
PeerExitEndedPair ==
    \E p \in Pairs :
        /\ ~cancelled
        /\ \A r \in Dirs : rpc[p][r] = "done"
        /\ \A h \in PairHandles(p) : conns[h].closed /\ conns[h].nclose = 1

\* C15: a handler whose createRemoteConnection failed has closed the accepted
\* socket once and stopped: neither handle of the pair is in a map, no relay
\* goroutine exists, no upstream socket exists, NoBackend dialled no backend
\* and DialError dialled exactly the one chosen backend; afterwards the handler
\* takes no further step and dials no other backend.
HandlerFailureStops ==
    /\ [](\A p \in Pairs :
             hpc[p] = "failed" =>
                 /\ ~conns[ClientOf(p)].open /\ conns[ClientOf(p)].nclose = 1
                 /\ conns[RemoteOf(p)] = NewSock
                 /\ PairHandles(p) \cap AnyMap = {}
                 /\ \A r \in Dirs : rpc[p][r] = "idle"
                 /\ herr[p] = "NoBackend" => chosen[p] = 0
                 /\ herr[p] = "DialError" => chosen[p] \in Backends
                 /\ herr[p] \in {"NoBackend", "DialError"})
    /\ [][\A p \in Pairs :
              hpc[p] = "failed" =>
                  /\ hpc'[p] = "failed" /\ chosen'[p] = chosen[p]
                  /\ conns'[ClientOf(p)] = conns[ClientOf(p)]
                  /\ conns'[RemoteOf(p)] = conns[RemoteOf(p)]]_vars

\* a dial failed and the client was closed although another backend was
\* active at that moment and is still
DialFailedNoRetry ==
    \E p \in Pairs :
        /\ hpc[p] = "failed" /\ herr[p] = "DialError"
        /\ ~conns[ClientOf(p)].open
        /\ \E b \in Backends : b # chosen[p] /\ active[b]

\* a step that operates on a socket: it opens one or closes one
SocketOp ==
    \E h \in Handles : conns'[h].open # conns[h].open \/ conns'[h].nclose # conns[h].nclose

\* C16: the task that holds a connection-map lock performs no socket
\* operation (here: closes no socket) and acquires no other manager's lock
\* before it releases the lock: neither run while it iterates its map under
\* the read lock, nor addConn and delConn under the write lock.
NoLockAcrossSocketOp ==
    [][/\ \A b \in Backends :
              (brun[b] = "iter" /\ brun'[b] # "iter") =>
                  /\ ~SocketOp /\ fmu' = fmu
                  /\ \A c \in Backends \ {b} : bmu'[c] = bmu[c]
       /\ (frun = "iter" /\ frun' # "iter") => (~SocketOp /\ bmu' = bmu)
       /\ \A p \in Pairs :
              (hpc[p] \in {"insR", "insC"} /\ hpc'[p] # hpc[p]) =>
                  (~SocketOp /\ bmu' = bmu /\ fmu' = fmu)
       /\ \A p \in Pairs, r \in Dirs :
              (rpc[p][r] \in {"delC", "delR"} /\ rpc'[p][r] # rpc[p][r]) =>
                  (~SocketOp /\ bmu' = bmu /\ fmu' = fmu)]_vars

\* while run has not been cancelled it is in its bind loop or holds the bound
\* listener, and the accept loop exists only after a bind has succeeded
BoundOrBinding ==
    /\ (~cancelled /\ frun # "done") =>
           (frun \in {"bind", "listen", "sleep"} \/ listener = "open")
    /\ frun \in {"bind", "listen", "sleep"} => (listener = "none" /\ lpc = "idle")
    /\ lpc # "idle" => listener # "none"

\* a failed bind is followed by the sleep and the next attempt; only a token
\* found cancelled ends the loop without a listener
BindRetried ==
    /\ (frun = "listen" /\ frun' # frun) => frun' \in {"sleep", "wait"}
    /\ (frun = "sleep" /\ frun' # frun) => frun' = "bind"
    /\ (frun = "bind" /\ frun' = "done") => cancelled

\* C17 as stated: BoundOrBinding and BindRetried, and once the token is
\* cancelled while no bind has succeeded, no listener is bound and no accept
\* loop is started.
BindLoopCancelBeforeBind ==
    /\ []BoundOrBinding
    /\ [][/\ BindRetried
           /\ (cancelled /\ listener = "none") =>
                  (listener' = "none" /\ lpc' = "idle")]_vars

\* C17 amended: BoundOrBinding and BindRetried, and when the check before a
\* bind attempt finds the token cancelled, run returns without a listener and
\* without an accept loop.
BindLoopCancelAtCheck ==
    /\ []BoundOrBinding
    /\ [][/\ BindRetried
           /\ (cancelled /\ frun = "bind" /\ frun' # frun) =>
                  (frun' = "done" /\ listener' = "none" /\ lpc' = "idle")]_vars

\* run has returned from its bind loop on cancellation: no listener, no
\* accept loop
ReturnedWithoutListener ==
    cancelled /\ frun = "done" /\ listener = "none" /\ lpc = "idle"

\* the handlers a step spawns
Spawned == {p \in Pairs : hpc[p] = "none" /\ hpc'[p] # "none"}

\* C18: AcceptTCP on the closed listener ends the accept loop without a
\* handler, and the ended loop never accepts or spawns again; any other return
\* of AcceptTCP leaves the listener open and the loop at its next iteration;
\* a handler is spawned only by an accept that returned a socket, one handler
\* for that one open socket.
AcceptLoopHandling ==
    [][/\ (lpc = "accept" /\ lpc' # lpc /\ listener = "closed") =>
              (lpc' = "done" /\ Spawned = {} /\ conns' = conns)
       /\ lpc = "done" => (lpc' = "done" /\ Spawned = {} /\ ~ENABLED AcceptOk)
       /\ (lpc = "accept" /\ lpc' # lpc /\ listener = "open") =>
              /\ lpc' = "check" /\ listener' = "open"
              /\ Spawned = {} => conns' = conns
       /\ \A p \in Spawned :
              /\ lpc = "accept" /\ listener = "open"
              /\ Spawned = {p}
              /\ hpc'[p] = "select"
              /\ ~conns[ClientOf(p)].open /\ conns'[ClientOf(p)].open
              /\ \A h \in Handles \ {ClientOf(p)} : conns'[h] = conns[h]]_vars

\* the accept loop has ended on the closed listener after it had handed a
\* client to a handler
AcceptLoopEnded ==
    /\ lpc = "done" /\ listener = "closed"
    /\ \E p \in Pairs : hpc[p] # "none"

\* C19: a step of the health check of backend b changes no connection map and
\* no socket or handle and no other backend's flag; the step that applies a
\* probe result sets the flag of b to that result and closes the probe
\* socket; the probe socket exists only between the dial and that step and is
\* in no map.
ProbeFlagOnly ==
    /\ [](\A b \in Backends : hc[b] # "set" => hcRes[b] = "none")
    /\ [][\A b \in Backends :
              (hc[b] \in {"first", "tick", "set"} /\ hc'[b] # hc[b]) =>
                  /\ bconns' = bconns /\ fconns' = fconns /\ conns' = conns
                  /\ \A c \in Backends \ {b} : active'[c] = active[c]
                  /\ hc[b] # "set" => active'[b] = active[b]
                  /\ hc[b] = "set" =>
                         (active'[b] = (hcRes[b] = "ok") /\ hcRes'[b] = "none")]_vars

\* a probe has failed and demoted a backend that holds an open, registered
\* traffic connection
ProbeFailedConnKept ==
    \E b \in Backends :
        /\ hc[b] = "tick" /\ ~active[b] /\ ~cancelled
        /\ \E h \in Tracked(bconns[b]) : conns[h].open /\ ~conns[h].closed

\* C20: every backend starts inactive and its flag becomes true only in the
\* step that applies a successful health probe of that backend; so no handler
\* ever holds a backend whose first probe has not returned, the backend a
\* handler picks is active, and a handler that finds no backend active leaves
\* with NoBackend and closes the client.
NeverActiveUnprobed ==
    /\ \A b \in Backends : ~active[b]
    /\ [](\A p \in Pairs :
             chosen[p] # 0 => hc[chosen[p]] \notin {"idle", "first"})
    /\ [][/\ \A b \in Backends :
                 (~active[b] /\ active'[b]) => (hc[b] = "set" /\ hcRes[b] = "ok")
           /\ \A p \in Pairs :
                 (hpc[p] = "select" /\ hpc'[p] # "select") =>
                     IF \E c \in Backends : active[c]
                     THEN hpc'[p] = "dial" /\ active[chosen'[p]]
                     ELSE /\ hpc'[p] = "failed" /\ herr'[p] = "NoBackend"
                          /\ chosen'[p] = 0 /\ ~conns'[ClientOf(p)].open]_vars

\* a client was refused while no probe of any backend had returned yet
RefusedBeforeFirstProbe ==
    \E p \in Pairs :
        /\ hpc[p] = "failed" /\ herr[p] = "NoBackend" /\ ~conns[ClientOf(p)].open
        /\ \A b \in Backends : hc[b] \in {"idle", "first"}
====
